---- MODULE Spec2Model ----
(***************************************************************************)
(* Model of the WebAR virtual try-on page (src/WebAR/app.js): the module   *)
(* level state, the asynchronous model initialisation, the upload          *)
(* pipeline (FileReader -> Image decode), the try-on click handler with    *)
(* its suspension on detector.estimatePoses, and the reset handler.        *)
(*                                                                         *)
(* Every event handler runs to completion on the single JavaScript thread, *)
(* so each handler (or each continuation between two awaits) is one        *)
(* action.  The state starts right after the DOMContentLoaded handler has  *)
(* run with tf defined: updateButtonState() has disabled the button and    *)
(* initializePoseDetection() is suspended on tf.ready().                   *)
(*                                                                         *)
(* Platform behaviour the handlers rely on is modelled as the HTML         *)
(* standard defines it: a disabled button dispatches no click, an Image    *)
(* whose load failed is "broken" and reports complete = true, drawImage    *)
(* throws InvalidStateError for a broken image, draws nothing for an image *)
(* that is not yet decoded or for non-finite arguments, and assigning      *)
(* canvas.width / canvas.height clears the surface and resets the context. *)
(***************************************************************************)
EXTENDS Integers, Sequences, FiniteSets, Bags, TLC

\* ------------------------------------------------------------------ bounds
\* uploads in flight at once (file being read or image being decoded)
MaxPending == 1
\* try-on runs suspended on estimatePoses at once
MaxOutstanding == 2
\* uploads in flight and try-on runs suspended at once, together
MaxInFlight == 2

\* --------------------------------------------------------------- constants
\* app.js:115  10 * 1024 * 1024
MaxFileSize == 10 * 1024 * 1024
\* app.js:130-131
maxWidth == 600
maxHeight == 800
\* app.js:212  0.3, scores are counted in units of 0.00001
minConfidence == 30000
\* app.js:247  0.8, alpha is counted in percent
GarmentAlpha == 80
\* app.js:254  1.0
DefaultAlpha == 100

\* ------------------------------------------------------------------- files
\* A media type is the sequence of its characters.
Chars(s) ==
    CASE s = "image/png"  -> <<"i","m","a","g","e","/","p","n","g">>
      [] s = "image/jpeg" -> <<"i","m","a","g","e","/","j","p","e","g">>
      [] s = "text/plain" -> <<"t","e","x","t","/","p","l","a","i","n">>
      [] s = "image"      -> <<"i","m","a","g","e">>
      [] s = "x-image/"   -> <<"x","-","i","m","a","g","e","/">>
      [] OTHER            -> <<>>

\* String.prototype.startsWith
StartsWith(s, prefix) ==
    /\ Len(s) >= Len(prefix)
    /\ SubSeq(s, 1, Len(prefix)) = prefix

ImagePrefix == <<"i","m","a","g","e","/">>

\* The files a user may pick.  decodable, width and height describe what the
\* browser's image decoder makes of the bytes.
Files ==
    << [type |-> Chars("image/png"),  size |-> MaxFileSize,     decodable |-> TRUE,  width |-> 400,  height |-> 600],
       [type |-> Chars("image/jpeg"), size |-> 2000000,         decodable |-> TRUE,  width |-> 1109, height |-> 700],
       [type |-> Chars("image/png"),  size |-> 5000,            decodable |-> FALSE, width |-> 0,    height |-> 0],
       [type |-> Chars("text/plain"), size |-> 100,             decodable |-> FALSE, width |-> 0,    height |-> 0],
       [type |-> Chars("image"),      size |-> 100,             decodable |-> FALSE, width |-> 0,    height |-> 0],
       [type |-> Chars("x-image/"),   size |-> 100,             decodable |-> FALSE, width |-> 0,    height |-> 0],
       [type |-> Chars("image/jpeg"), size |-> MaxFileSize + 1, decodable |-> TRUE,  width |-> 400,  height |-> 600],
       [type |-> Chars("image/jpeg"), size |-> 12000000,        decodable |-> TRUE,  width |-> 400,  height |-> 600] >>

FileIds == 1..Len(Files)

\* ------------------------------------------------------------------- poses
Kp(n, x, y, s) == [name |-> n, x |-> x, y |-> y, score |-> s]

GoodKps ==
    << Kp("nose", 150, 20, 95000),
       Kp("left_shoulder", 100, 50, 90000), Kp("right_shoulder", 200, 50, 90000),
       Kp("left_hip", 110, 250, 30001),     Kp("right_hip", 190, 250, 90000) >>
\* one required keypoint scored exactly 0.3
EdgeKps ==
    << Kp("left_shoulder", 100, 50, 90000), Kp("right_shoulder", 200, 50, 90000),
       Kp("left_hip", 110, 250, 90000),     Kp("right_hip", 190, 250, 30000) >>
\* one required keypoint scored below 0.3
LowKps ==
    << Kp("left_shoulder", 100, 50, 10000), Kp("right_shoulder", 200, 50, 90000),
       Kp("left_hip", 110, 250, 90000),     Kp("right_hip", 190, 250, 90000) >>
\* right_hip is not reported
MissingKps ==
    << Kp("left_shoulder", 100, 50, 90000), Kp("right_shoulder", 200, 50, 90000),
       Kp("left_hip", 110, 250, 90000) >>

\* both shoulders at the same x
NarrowKps ==
    << Kp("left_shoulder", 137, 61, 90000), Kp("right_shoulder", 137, 64, 90000),
       Kp("left_hip", 120, 333, 90000),     Kp("right_hip", 171, 329, 90000) >>

\* What detector.estimatePoses may resolve with: a sequence of poses.
DetectionResults ==
    { <<>>,
      << [keypoints |-> GoodKps] >>,
      << [keypoints |-> NarrowKps] >>,
      << [keypoints |-> EdgeKps] >>,
      << [keypoints |-> LowKps] >>,
      << [keypoints |-> MissingKps] >>,
      << [keypoints |-> LowKps],  [keypoints |-> GoodKps] >>,
      << [keypoints |-> GoodKps], [keypoints |-> LowKps] >> }

\* Array.prototype.find(k => k.name === name): the first match, or undefined.
Undefined == [name |-> "undefined", x |-> 0, y |-> 0, score |-> 0]

Find(keypoints, name) ==
    LET hits == { i \in 1..Len(keypoints) : keypoints[i].name = name }
    IN  IF hits = {} THEN Undefined
        ELSE keypoints[CHOOSE i \in hits : \A j \in hits : i <= j]

\* mutant of Confident: the threshold is taken as inclusive
Confident_Inclusive(k) == k # Undefined /\ k.score >= minConfidence

\* k?.score > minConfidence; undefined > 0.3 is false
Confident(k) == k # Undefined /\ k.score > minConfidence

\* app.js:213-216
ConfidenceCheck(keypoints) ==
    /\ Confident(Find(keypoints, "left_shoulder"))
    /\ Confident(Find(keypoints, "right_shoulder"))
    /\ Confident(Find(keypoints, "left_hip"))
    /\ Confident(Find(keypoints, "right_hip"))

\* ------------------------------------------------------------------ numbers
\* A JavaScript Number (IEEE 754 double precision) that is positive and
\* finite is [e, q]: e is its exponent and q the 52 bits of its significand
\* after the leading 1, as four limbs of 13 bits, most significant first;
\* its value is (2^52 + q[1]*2^39 + q[2]*2^26 + q[3]*2^13 + q[4]) * 2^(e-52).
\* Results are rounded to nearest, ties to even.  The integers that enter
\* are below 2^13.
B == 8192

RECURSIVE Pow2(_)
Pow2(k) == IF k = 0 THEN 1 ELSE 2 * Pow2(k - 1)

RECURSIVE Exponent(_, _)
\* the e with d * 2^e <= n < d * 2^(e+1), for integers n, d > 0
Exponent(n, d) ==
    IF n < d THEN Exponent(2 * n, d) - 1
    ELSE IF n >= 2 * d THEN Exponent(n, 2 * d) + 1
    ELSE 0

\* the Number of exponent e whose significand is head * 2^52 / unit plus the
\* limbs p, plus one unit in the last place kept if up: head has the bits
\* of unit and one more, the limbs are multiples of unit.
Normal(e, head, p, unit, up) ==
    LET s4 == p[4] + (IF up THEN unit ELSE 0)
        s3 == p[3] + s4 \div B
        s2 == p[2] + s3 \div B
        s1 == p[1] + s2 \div B
        h  == head + s1 \div B
        r1 == s1 % B
        r2 == s2 % B
        r3 == s3 % B
        r4 == s4 % B
    IN  IF h = 2 * unit
        THEN [e |-> e + 1, q |-> <<0, 0, 0, 0>>]
        ELSE [e |-> e,
              q |-> << ((h % unit) * B + r1) \div unit,
                       ((r1 % unit) * B + r2) \div unit,
                       ((r2 % unit) * B + r3) \div unit,
                       ((r3 % unit) * B + r4) \div unit >>]

\* n / d for integers n, d > 0
Divide(n, d) ==
    LET e  == Exponent(n, d)
        nn == IF e < 0 THEN n * Pow2(-e) ELSE n
        dd == IF e > 0 THEN d * Pow2(e) ELSE d
        r0 == nn - dd
        q1 == (r0 * B) \div dd
        r1 == (r0 * B) % dd
        q2 == (r1 * B) \div dd
        r2 == (r1 * B) % dd
        q3 == (r2 * B) \div dd
        r3 == (r2 * B) % dd
        q4 == (r3 * B) \div dd
        r4 == (r3 * B) % dd
    IN  Normal(e, 1, <<q1, q2, q3, q4>>, 1,
               2 * r4 > dd \/ (2 * r4 = dd /\ q4 % 2 = 1))

\* x * n for a Number x and an integer n > 0
Times(x, n) ==
    LET t4   == x.q[4] * n
        t3   == x.q[3] * n + t4 \div B
        t2   == x.q[2] * n + t3 \div B
        t1   == x.q[1] * n + t2 \div B
        head == n + t1 \div B
        p1   == t1 % B
        p2   == t2 % B
        p3   == t3 % B
        p4   == t4 % B
        k    == Exponent(head, 1)
        unit == Pow2(k)
        low  == p4 % unit
        odd  == ((p3 * B + p4) \div unit) % 2 = 1
    IN  Normal(x.e + k, head, <<p1, p2, p3, p4 - low>>, unit,
               2 * low > unit \/ (2 * low = unit /\ odd))

\* x < y
Less(x, y) ==
    \/ x.e < y.e
    \/ /\ x.e = y.e
       /\ \E i \in 1..4 :
            /\ x.q[i] < y.q[i]
            /\ \A j \in 1..(i - 1) : x.q[j] = y.q[j]

\* the Number 0, which has no leading 1
Zero == [e |-> -1075, q |-> <<0, 0, 0, 0>>]

\* the Number of an integer 0 <= n < 2^13
FromInteger(n) == IF n = 0 THEN Zero ELSE Divide(n, 1)

\* mutant of Min: the larger of the two
Min_Larger(x, y) == IF Less(y, x) THEN x ELSE y

\* Math.min
Min(x, y) == IF Less(y, x) THEN y ELSE x

\* the integer part of a Number below 2^13
Truncate(x) == IF x.e < 0 THEN 0 ELSE Pow2(x.e) + x.q[1] \div Pow2(13 - x.e)

\* the element of a set of one element; { F(v) : v \in {e} } is F(e) with e
\* evaluated once
Only(S) == CHOOSE r \in S : TRUE

\* A significand with more bits than a Number keeps is a tuple p of ten
\* limbs: p[1] is the part before the point and p[2] .. p[10] follow it.
Wide(x) == << 1, x.q[1], x.q[2], x.q[3], x.q[4], 0, 0, 0, 0, 0 >>

\* the limbs of p after the carries (or borrows) have moved up
Carried(p) ==
    Only({ LET c10 == w[10]
               c9  == w[9] + c10 \div B
               c8  == w[8] + c9 \div B
               c7  == w[7] + c8 \div B
               c6  == w[6] + c7 \div B
               c5  == w[5] + c6 \div B
               c4  == w[4] + c5 \div B
               c3  == w[3] + c4 \div B
               c2  == w[2] + c3 \div B
               c1  == w[1] + c2 \div B
           IN  << c1, c2 % B, c3 % B, c4 % B, c5 % B, c6 % B, c7 % B, c8 % B,
                  c9 % B, c10 % B >> : w \in {p} })

\* p / 2^d, for 0 <= d <= 65
ShiftRight(p, d) ==
    Only({ LET s(j) == LET i == j - a
                       IN  (IF i >= 1 THEN w[i] \div lo ELSE 0)
                           + (IF i >= 2 THEN (w[i - 1] % lo) * (B \div lo) ELSE 0)
           IN  << s(1), s(2), s(3), s(4), s(5), s(6), s(7), s(8), s(9), s(10) >> :
           w \in {p}, a \in {d \div 13}, lo \in {Pow2(d % 13)} })

\* p * 2^d, for a p below 2^(-d)
ShiftLeft(p, d) ==
    Only({ LET s(j) == LET i == j + a
                       IN  (IF i <= 10 THEN (w[i] % (B \div lo)) * lo ELSE 0)
                           + (IF i + 1 <= 10 THEN w[i + 1] \div (B \div lo) ELSE 0)
           IN  << s(1), s(2), s(3), s(4), s(5), s(6), s(7), s(8), s(9), s(10) >> :
           w \in {p}, a \in {d \div 13}, lo \in {Pow2(d % 13)} })

\* the Number nearest to p * 2^e (ties to even), for 1 <= p < 4
Round(e, p) ==
    Only({ LET unit == IF w[1] >= 2 THEN 2 ELSE 1
               low  == w[5] % unit
               top  == low * B + w[6]
               rest == w[7] + w[8] + w[9] + w[10] > 0
               odd  == ((w[4] * B + w[5]) \div unit) % 2 = 1
           IN  Normal(f + unit - 1, w[1], <<w[2], w[3], w[4], w[5] - low>>, unit,
                      top > unit * (B \div 2)
                          \/ (top = unit * (B \div 2) /\ (rest \/ odd))) :
           w \in {p}, f \in {e} })

\* x * y
Multiply(x, y) ==
    Only({ IF a = Zero \/ b = Zero THEN Zero
           ELSE LET \* the sum of the limb products of weight n
                    c(n) == LET t(i) == IF i <= n /\ n + 1 - i <= 5
                                        THEN Wide(a)[i] * Wide(b)[n + 1 - i]
                                        ELSE 0
                            IN  t(1) + t(2) + t(3) + t(4) + t(5)
                IN  Round(a.e + b.e,
                          Carried(<< c(1), c(2), c(3), c(4), c(5), c(6), c(7),
                                     c(8), c(9), 0 >>)) :
           a \in {x}, b \in {y} })

\* u + v for u >= v
Sum(u, v) ==
    IF v = Zero \/ u.e - v.e > 65 THEN u
    ELSE Only({ Round(u.e, Carried([j \in 1..10 |-> Wide(u)[j] + s[j]])) :
                s \in {ShiftRight(Wide(v), u.e - v.e)} })

\* x + y
Plus(x, y) ==
    Only({ IF Less(a, b) THEN Sum(b, a) ELSE Sum(a, b) : a \in {x}, b \in {y} })

\* the number of places that p < 1 is shifted up to have p[1] = 1
Leading(p) ==
    LET j == CHOOSE j \in 1..10 : p[j] > 0 /\ \A i \in 1..(j - 1) : p[i] = 0
    IN  13 * (j - 1) - Exponent(p[j], 1)

\* u - v for u >= v
Difference(u, v) ==
    IF u = v THEN Zero
    ELSE IF v = Zero \/ u.e - v.e > 65 THEN u
    ELSE Only({ Round(u.e - d, ShiftLeft(c, d)) :
                <<c, d>> \in { <<w, Leading(w)>> :
                    w \in { Carried([j \in 1..10 |-> Wide(u)[j] - s[j]]) :
                        s \in {ShiftRight(Wide(v), u.e - v.e)} } } })

\* | x - y |
Distance(x, y) ==
    Only({ IF Less(a, b) THEN Difference(b, a) ELSE Difference(a, b) :
           a \in {x}, b \in {y} })

\* mutant of Half: the value is not halved
Half_Whole(x) == x

\* x / 2
Half(x) == IF x = Zero THEN Zero ELSE [e |-> x.e - 1, q |-> x.q]

\* x - y, which may be negative
Minus(x, y) == [negative |-> Less(x, y), magnitude |-> Distance(x, y)]

\* the literals 1.5, 1.8 and 0.1 of app.js:239-244
dressWidthFactor == Divide(3, 2)
dressHeightFactor == Divide(9, 5)
dressYOffset == Divide(1, 10)

\* ------------------------------------------------------------------ images
\* An HTMLImageElement: src is the file the data URL was read from (0: no
\* src), state is the state of its current request.
EmptyImage == [src |-> 0, state |-> "unavailable", width |-> 0, height |-> 0]

\* app.js:130-139: width and height of an image of size w x h after the
\* scaling down, as Numbers
Fit(w, h) ==
    IF w > maxWidth \/ h > maxHeight
    THEN LET scale == Min(Divide(maxWidth, w), Divide(maxHeight, h))
         IN  [width |-> Times(scale, w), height |-> Times(scale, h)]
    ELSE [width |-> FromInteger(w), height |-> FromInteger(h)]

\* canvas.width = width: the Number is converted to an unsigned long, which
\* drops its fraction
ToLength(x) == Truncate(x)

\* the sizes an Image object can have: that of a file that decodes, or 0 x 0
Sizes ==
    { << Files[f].width, Files[f].height >> : f \in { g \in FileIds : Files[g].decodable } }
        \cup { << 0, 0 >> }

\* app.js:130-142 for each of Sizes, computed once: the width and height the
\* display surface gets
Fitted ==
    [s \in Sizes |->
        LET fit == Fit(s[1], s[2])
        IN  [width |-> ToLength(fit.width), height |-> ToLength(fit.height)]]

\* --------------------------------------------------------- status messages
Msg(m, t) == [msg |-> m, type |-> t]

VARIABLES
    detector,        \* TRUE when the detector object exists (app.js:14)
    isModelLoading,  \* app.js:15
    isImageUploaded, \* app.js:16
    uploadedImage,   \* the Image object the global refers to (app.js:12)
    dressImage,      \* state of the garment Image: "loading", "complete", "broken"
    initPc,          \* initializePoseDetection: "tfReady", "createDetector", "done", "failed"
    hideTimer,       \* the setTimeout of app.js:79 is pending
    readers,         \* bag of the FileReaders whose read is in flight
    decoding,        \* bag of the Image objects whose decode is in flight
    suspended,       \* bag of the try-on runs suspended on estimatePoses
    canvas,          \* [width, height, base, garment]
    ctx,             \* [alpha, blend]
    tryOnDisabled,   \* tryOnButton.disabled
    resetShown,      \* resetButton.style.display = 'inline-flex'
    loadingHidden,   \* loadingOverlay has class hidden
    emitted,         \* the updateStatus calls of the last handler, in order
    drawn,           \* the draw calls the last handler completed, in order
    ended            \* the try-on run the last handler brought to its end, if any

vars == << detector, isModelLoading, isImageUploaded, uploadedImage, dressImage,
           initPc, hideTimer, readers, decoding, suspended, canvas, ctx,
           tryOnDisabled, resetShown, loadingHidden, emitted, drawn, ended >>

\* number of try-on runs suspended on estimatePoses
runs == BagCardinality(suspended)

\* app.js:193-202: a run is suspended holding the copy of the stored image
\* that it handed to estimatePoses (blank if the image was not decoded)
Run(image) == [photo |-> IF image.state = "complete" THEN image.src ELSE 0]

DefaultCtx == [alpha |-> DefaultAlpha, blend |-> "source-over"]

MultiplyCtx == [alpha |-> GarmentAlpha, blend |-> "multiply"]

\* A try-on run at its end: how the detection call ended ("none": it was not
\* made, "resolved", "rejected"), what it returned, the outcome reported and
\* whether the garment draw was completed.
Ended(detection, poses, outcome, garment) ==
    [detection |-> detection, poses |-> poses, outcome |-> outcome,
     garment |-> garment]

NoRun == Ended("none", <<>>, "none", FALSE)

\* mutant of updateButtonState: the model's loading is not looked at
updateButtonState_UploadOnly(loading, uploaded) == ~uploaded

\* app.js:39-50, as a function of the two flags
updateButtonState(loading, uploaded) == loading \/ ~uploaded

Init ==
    /\ detector = FALSE
    /\ isModelLoading = TRUE
    /\ isImageUploaded = FALSE
    /\ uploadedImage = EmptyImage
    /\ dressImage = "loading"
    /\ initPc = "tfReady"
    /\ hideTimer = FALSE
    /\ readers = EmptyBag
    /\ decoding = EmptyBag
    /\ suspended = EmptyBag
    /\ canvas = [width |-> 300, height |-> 150, base |-> 0, garment |-> FALSE]
    /\ ctx = DefaultCtx
    /\ tryOnDisabled = updateButtonState(TRUE, FALSE)
    /\ resetShown = FALSE
    /\ loadingHidden = FALSE
    /\ emitted = << Msg("LoadingModels", "info") >>
    /\ drawn = <<>>
    /\ ended = NoRun

\* updateStatus is called once per message of seq, in order (app.js:22-25);
\* the status surface is a sink, no handler reads it back
updateStatus(seq) == emitted' = seq

\* a handler that draws nothing and ends no try-on run
Quiet == drawn' = <<>> /\ ended' = NoRun

\* ------------------------------------------------- model initialisation
\* app.js:59-60: tf.ready() resolves
TfReady ==
    /\ initPc = "tfReady"
    /\ initPc' = "createDetector"
    /\ updateStatus(<<>>)
    /\ Quiet
    /\ UNCHANGED << detector, isModelLoading, isImageUploaded, uploadedImage,
                    dressImage, hideTimer, readers, decoding, suspended, canvas,
                    ctx, tryOnDisabled, resetShown, loadingHidden >>

\* app.js:63-83: createDetector resolves
DetectorCreated ==
    /\ initPc = "createDetector"
    /\ initPc' = "done"
    /\ detector' = TRUE
    /\ isModelLoading' = FALSE
    /\ tryOnDisabled' = updateButtonState(FALSE, isImageUploaded)
    /\ updateStatus(<< Msg("ModelsLoaded", "success") >>)
    /\ hideTimer' = TRUE
    /\ Quiet
    /\ UNCHANGED << isImageUploaded, uploadedImage, dressImage, readers,
                    decoding, suspended, canvas, ctx, resetShown, loadingHidden >>

\* app.js:85-91: tf.ready() or createDetector rejects
InitFailed ==
    /\ initPc \in {"tfReady", "createDetector"}
    /\ initPc' = "failed"
    /\ updateStatus(<< Msg("ModelLoadFailure", "error") >>)
    /\ isModelLoading' = FALSE
    /\ tryOnDisabled' = updateButtonState(FALSE, isImageUploaded)
    /\ Quiet
    /\ UNCHANGED << detector, isImageUploaded, uploadedImage, dressImage,
                    hideTimer, readers, decoding, suspended, canvas, ctx,
                    resetShown, loadingHidden >>

\* app.js:79-83: the timer set after a successful initialisation fires
HideTimerFired ==
    /\ hideTimer
    /\ hideTimer' = FALSE
    /\ loadingHidden' = IF ~isImageUploaded THEN TRUE ELSE loadingHidden
    /\ updateStatus(<<>>)
    /\ Quiet
    /\ UNCHANGED << detector, isModelLoading, isImageUploaded, uploadedImage,
                    dressImage, initPc, readers, decoding, suspended, canvas, ctx,
                    tryOnDisabled, resetShown >>

\* ---------------------------------------------------------- garment asset
\* app.js:95-97
DressOnload ==
    /\ dressImage = "loading"
    /\ dressImage' = "complete"
    /\ updateStatus(<<>>)
    /\ Quiet
    /\ UNCHANGED << detector, isModelLoading, isImageUploaded, uploadedImage,
                    initPc, hideTimer, readers, decoding, suspended, canvas, ctx,
                    tryOnDisabled, resetShown, loadingHidden >>

\* app.js:99-102
DressOnerror ==
    /\ dressImage = "loading"
    /\ dressImage' = "broken"
    /\ updateStatus(<< Msg("DressLoadFailed", "error") >>)
    /\ Quiet
    /\ UNCHANGED << detector, isModelLoading, isImageUploaded, uploadedImage,
                    initPc, hideTimer, readers, decoding, suspended, canvas, ctx,
                    tryOnDisabled, resetShown, loadingHidden >>

\* ------------------------------------------------------------------ upload
\* app.js:109  file.type.startsWith('image/')
IsImageType(file) == StartsWith(file.type, ImagePrefix)

\* mutant of TooLarge: a file of exactly the limit is turned down
TooLarge_AtLimit(file) == file.size >= MaxFileSize

\* app.js:115  file.size > 10 * 1024 * 1024
TooLarge(file) == file.size > MaxFileSize

\* a completed draw call, with the compositing parameters it was made under
Draw(op, image, c) == [op |-> op, image |-> image, alpha |-> c.alpha, blend |-> c.blend]

\* app.js:124, 168: a FileReader started on file f
Reader(f) == [file |-> f]

\* app.js:105-170: the change handler of the file input, for a chosen file
UploadChange(f) ==
    LET file == Files[f] IN
    /\ Quiet
    /\ IF ~IsImageType(file)
       THEN /\ updateStatus(<< Msg("InvalidFileType", "error") >>)
            /\ UNCHANGED << readers, loadingHidden >>
       ELSE IF TooLarge(file)
       THEN /\ updateStatus(<< Msg("FileTooLarge", "error") >>)
            /\ UNCHANGED << readers, loadingHidden >>
       ELSE /\ BagCardinality(readers) + BagCardinality(decoding) < MaxPending
            /\ BagCardinality(readers) + BagCardinality(decoding) + runs < MaxInFlight
            /\ loadingHidden' = FALSE
            /\ updateStatus(<< Msg("ProcessingPhoto", "info") >>)
            /\ readers' = readers (+) SetToBag({Reader(f)})
    /\ UNCHANGED << detector, isModelLoading, isImageUploaded, uploadedImage,
                    dressImage, initPc, hideTimer, decoding, suspended, canvas, ctx,
                    tryOnDisabled, resetShown >>

\* an Image whose decode is in flight stops being the global's object when
\* the global is assigned another Image
Replaced(p) == [p EXCEPT !.current = FALSE]

\* app.js:125-127: the read is done; a new Image replaces the global and
\* starts to decode the data URL
ReaderOnload(r) ==
    /\ BagIn(r, readers)
    /\ readers' = readers (-) SetToBag({r})
    /\ uploadedImage' = [src |-> r.file, state |-> "loading", width |-> 0,
                         height |-> 0]
    /\ decoding' = BagOfAll(Replaced, decoding) (+)
                   SetToBag({[file |-> r.file, current |-> TRUE]})
    /\ updateStatus(<<>>)
    /\ Quiet
    /\ UNCHANGED << detector, isModelLoading, isImageUploaded, dressImage,
                    initPc, hideTimer, suspended, canvas, ctx, tryOnDisabled,
                    resetShown, loadingHidden >>

\* app.js:163-166
ReaderOnerror(r) ==
    /\ BagIn(r, readers)
    /\ readers' = readers (-) SetToBag({r})
    /\ updateStatus(<< Msg("FileReadFailure", "error") >>)
    /\ loadingHidden' = TRUE
    /\ Quiet
    /\ UNCHANGED << detector, isModelLoading, isImageUploaded, uploadedImage,
                    dressImage, initPc, hideTimer, decoding, suspended, canvas, ctx,
                    tryOnDisabled, resetShown >>

\* The global Image after the decode of the Image object p has ended: p is
\* the global's object only if no later reader.onload or reset replaced it.
Decoded(p, ok) ==
    IF ~p.current THEN uploadedImage
    ELSE IF ok THEN [uploadedImage EXCEPT !.state = "complete",
                                          !.width = Files[p.file].width,
                                          !.height = Files[p.file].height]
    ELSE [uploadedImage EXCEPT !.state = "broken"]

\* app.js:128-155: the load event of an Image created by reader.onload.  The
\* handler reads the global uploadedImage, not the Image that fired.
ImageOnload(p) ==
    /\ BagIn(p, decoding)
    /\ Files[p.file].decodable
    /\ decoding' = decoding (-) SetToBag({p})
    /\ LET img == Decoded(p, TRUE)
           fit == Fitted[<< img.width, img.height >>]
           w   == fit.width
           h   == fit.height
       IN  /\ uploadedImage' = img
           /\ ctx' = DefaultCtx
           /\ IF img.state = "broken"
              THEN \* drawImage throws, the handler ends at app.js:145
                   /\ canvas' = [width |-> w, height |-> h, base |-> 0, garment |-> FALSE]
                   /\ Quiet
                   /\ updateStatus(<<>>)
                   /\ UNCHANGED << isImageUploaded, tryOnDisabled, resetShown,
                                   loadingHidden >>
              ELSE /\ canvas' = [width |-> w, height |-> h,
                                 base |-> IF img.state = "complete" THEN img.src ELSE 0,
                                 garment |-> FALSE]
                   /\ drawn' = IF img.state = "complete"
                               THEN << Draw("base", img.src, DefaultCtx) >>
                               ELSE <<>>
                   /\ ended' = NoRun
                   /\ isImageUploaded' = TRUE
                   /\ tryOnDisabled' = updateButtonState(isModelLoading, TRUE)
                   /\ updateStatus(<< Msg("PhotoUploaded", "success") >>)
                   /\ resetShown' = TRUE
                   /\ loadingHidden' = TRUE
    /\ UNCHANGED << detector, isModelLoading, dressImage, initPc, hideTimer,
                    readers, suspended >>

\* app.js:157-160: the error event of an Image created by reader.onload
ImageOnerror(p) ==
    /\ BagIn(p, decoding)
    /\ ~Files[p.file].decodable
    /\ decoding' = decoding (-) SetToBag({p})
    /\ uploadedImage' = Decoded(p, FALSE)
    /\ updateStatus(<< Msg("ImageDecodeFailure", "error") >>)
    /\ loadingHidden' = TRUE
    /\ Quiet
    /\ UNCHANGED << detector, isModelLoading, isImageUploaded, dressImage,
                    initPc, hideTimer, readers, suspended, canvas, ctx,
                    tryOnDisabled, resetShown >>

\* ------------------------------------------------------------------ try-on
\* mutant of NotReady: the guard does not look at the detector
NotReady_NoDetector == uploadedImage.src = 0 \/ isModelLoading

\* app.js:174  !uploadedImage.src || !detector || isModelLoading
NotReady == uploadedImage.src = 0 \/ ~detector \/ isModelLoading

\* app.js:179  !dressImage.complete
DressNotComplete == dressImage = "loading"

\* app.js:173-202: the click handler of the try-on button up to its
\* suspension on detector.estimatePoses
TryOnClick ==
    /\ ~tryOnDisabled
    /\ IF NotReady
       THEN /\ updateStatus(<< Msg("WaitForModels", "error") >>)
            /\ Quiet
            /\ UNCHANGED << suspended, canvas, loadingHidden >>
       ELSE IF DressNotComplete
       THEN /\ updateStatus(<< Msg("DressStillLoading", "error") >>)
            /\ Quiet
            /\ UNCHANGED << suspended, canvas, loadingHidden >>
       ELSE IF uploadedImage.state = "broken"
       THEN \* drawImage throws at app.js:190: catch, finally
            /\ updateStatus(<< Msg("AnalyzingPose", "info"),
                               Msg("ProcessingError", "error") >>)
            /\ loadingHidden' = TRUE
            /\ drawn' = <<>>
            /\ ended' = Ended("none", <<>>, "Error", FALSE)
            /\ UNCHANGED << suspended, canvas >>
       ELSE /\ runs < MaxOutstanding
            /\ BagCardinality(readers) + BagCardinality(decoding) + runs < MaxInFlight
            /\ updateStatus(<< Msg("AnalyzingPose", "info") >>)
            /\ loadingHidden' = FALSE
            /\ IF uploadedImage.state = "complete"
               THEN /\ canvas' = [canvas EXCEPT
                                    !.base = uploadedImage.src,
                                    !.garment = IF ctx = DefaultCtx THEN FALSE ELSE @]
                    /\ drawn' = << Draw("base", uploadedImage.src, ctx) >>
               ELSE /\ drawn' = <<>>
                    /\ UNCHANGED canvas
            /\ ended' = NoRun
            /\ suspended' = suspended (+) SetToBag({ Run(uploadedImage) })
    /\ UNCHANGED << detector, isModelLoading, isImageUploaded, uploadedImage,
                    dressImage, initPc, hideTimer, readers, decoding, ctx,
                    tryOnDisabled, resetShown >>

\* app.js:221-222: canvas.width / uploadedImage.width is Infinity or NaN when
\* the global Image has no decoded size
ScaleFinite == uploadedImage.width # 0 /\ uploadedImage.height # 0

\* app.js:221-222: canvas.width / uploadedImage.width, for a width that is
\* not 0
Scale(surface, image) == IF surface = 0 THEN Zero ELSE Divide(surface, image)

\* app.js:225-244: the rectangle the garment is drawn into, from the four
\* keypoints and the scale factors
DressRectangle(leftShoulder, rightShoulder, leftHip, rightHip, scaleX, scaleY) ==
    LET scaled(k) == [x |-> Multiply(FromInteger(k.x), scaleX),
                      y |-> Multiply(FromInteger(k.y), scaleY)]
    IN  Only({
            LET centerX == Half(Plus(scaledKeypoints.leftShoulder.x,
                                     scaledKeypoints.rightShoulder.x))
                shoulderWidth == Distance(scaledKeypoints.rightShoulder.x,
                                          scaledKeypoints.leftShoulder.x)
                torsoHeight == Distance(scaledKeypoints.leftHip.y,
                                        scaledKeypoints.leftShoulder.y)
            IN  Only({
                    LET dressX == Minus(centerX, Half(dressWidth))
                        dressY == Minus(scaledKeypoints.leftShoulder.y,
                                        Multiply(dressHeight, dressYOffset))
                    IN  [x |-> dressX, y |-> dressY,
                         width |-> dressWidth, height |-> dressHeight] :
                    dressWidth \in {Multiply(shoulderWidth, dressWidthFactor)},
                    dressHeight \in {Multiply(torsoHeight, dressHeightFactor)} }) :
            scaledKeypoints \in {[leftShoulder  |-> scaled(leftShoulder),
                                  rightShoulder |-> scaled(rightShoulder),
                                  leftHip       |-> scaled(leftHip),
                                  rightHip      |-> scaled(rightHip)]} })

\* the keypoints that pass the confidence check, the sizes the display
\* surface can have, and app.js:221-244 for each of them and each size of a
\* decoded Image, computed once
Fits ==
    { poses[1].keypoints :
        poses \in { p \in DetectionResults :
                       Len(p) > 0 /\ ConfidenceCheck(p[1].keypoints) } }

Surfaces == { << 300, 150 >> } \cup { << Fitted[s].width, Fitted[s].height >> : s \in Sizes }

Rectangles ==
    [keypoints \in Fits, surface \in Surfaces, image \in Sizes \ { << 0, 0 >> } |->
        DressRectangle(Find(keypoints, "left_shoulder"),
                       Find(keypoints, "right_shoulder"),
                       Find(keypoints, "left_hip"),
                       Find(keypoints, "right_hip"),
                       Scale(surface[1], image[1]),
                       Scale(surface[2], image[2]))]

\* app.js:251: the call that draws the garment into rectangle
DrawDress(rectangle) ==
    [op |-> "garment", image |-> 0, alpha |-> MultiplyCtx.alpha,
     blend |-> MultiplyCtx.blend, at |-> rectangle]

\* app.js:202-273: estimatePoses resolves with poses, the handler resumes
PosesResolved(r, poses) ==
    /\ BagIn(r, suspended)
    /\ suspended' = suspended (-) SetToBag({r})
    /\ loadingHidden' = TRUE
    /\ IF Len(poses) > 0
       THEN IF ConfidenceCheck(poses[1].keypoints)
            THEN IF ~ScaleFinite
                    THEN \* drawImage returns at once for non-finite arguments
                         /\ ctx' = DefaultCtx
                         /\ drawn' = <<>>
                         /\ updateStatus(<< Msg("DressFitted", "success") >>)
                         /\ ended' = Ended("resolved", poses, "Rendered", FALSE)
                         /\ UNCHANGED canvas
                    ELSE IF dressImage = "broken"
                    THEN \* drawImage throws at app.js:251: catch, finally
                         /\ ctx' = MultiplyCtx
                         /\ drawn' = <<>>
                         /\ updateStatus(<< Msg("ProcessingError", "error") >>)
                         /\ ended' = Ended("resolved", poses, "Error", FALSE)
                         /\ UNCHANGED canvas
                    ELSE \E rectangle \in
                             { Rectangles[poses[1].keypoints,
                                          << canvas.width, canvas.height >>,
                                          << uploadedImage.width, uploadedImage.height >>] } :
                         /\ ctx' = DefaultCtx
                         /\ canvas' = [canvas EXCEPT !.garment =
                                @ \/ (rectangle.width # Zero /\ rectangle.height # Zero)]
                         /\ drawn' = << DrawDress(rectangle) >>
                         /\ updateStatus(<< Msg("DressFitted", "success") >>)
                         /\ ended' = Ended("resolved", poses, "Rendered", TRUE)
            ELSE /\ updateStatus(<< Msg("LowConfidenceDetection", "error") >>)
                 /\ ended' = Ended("resolved", poses, "LowConfidenceDetection", FALSE)
                 /\ drawn' = <<>>
                 /\ UNCHANGED << canvas, ctx >>
       ELSE /\ updateStatus(<< Msg("NoPersonDetected", "error") >>)
            /\ ended' = Ended("resolved", poses, "NoPersonDetected", FALSE)
            /\ drawn' = <<>>
            /\ UNCHANGED << canvas, ctx >>
    /\ UNCHANGED << detector, isModelLoading, isImageUploaded, uploadedImage,
                    dressImage, initPc, hideTimer, readers, decoding,
                    tryOnDisabled, resetShown >>

\* app.js:268-273: estimatePoses rejects
PosesRejected(r) ==
    /\ BagIn(r, suspended)
    /\ suspended' = suspended (-) SetToBag({r})
    /\ updateStatus(<< Msg("ProcessingError", "error") >>)
    /\ loadingHidden' = TRUE
    /\ ended' = Ended("rejected", <<>>, "Error", FALSE)
    /\ drawn' = <<>>
    /\ UNCHANGED << detector, isModelLoading, isImageUploaded, uploadedImage,
                    dressImage, initPc, hideTimer, readers, decoding, canvas,
                    ctx, tryOnDisabled, resetShown >>

\* ------------------------------------------------------------------- reset
\* app.js:277-294
ResetClick ==
    /\ resetShown
    /\ canvas' = [canvas EXCEPT !.base = 0, !.garment = FALSE]
    /\ drawn' = << Draw("clear", 0, ctx) >>
    /\ ended' = NoRun
    /\ isImageUploaded' = FALSE
    /\ uploadedImage' = EmptyImage
    /\ decoding' = BagOfAll(Replaced, decoding)
    /\ tryOnDisabled' = updateButtonState(isModelLoading, FALSE)
    /\ resetShown' = FALSE
    /\ updateStatus(<< Msg("ReadyForNewPhoto", "info") >>)
    /\ UNCHANGED << detector, isModelLoading, dressImage, initPc, hideTimer,
                    readers, suspended, ctx, loadingHidden >>

Next ==
    \/ TfReady
    \/ DetectorCreated
    \/ InitFailed
    \/ HideTimerFired
    \/ DressOnload
    \/ DressOnerror
    \/ \E f \in FileIds : UploadChange(f)
    \/ \E r \in BagToSet(readers) : ReaderOnload(r)
    \/ \E r \in BagToSet(readers) : ReaderOnerror(r)
    \/ \E p \in BagToSet(decoding) : ImageOnload(p)
    \/ \E p \in BagToSet(decoding) : ImageOnerror(p)
    \/ TryOnClick
    \/ \E r \in BagToSet(suspended), poses \in DetectionResults : PosesResolved(r, poses)
    \/ \E r \in BagToSet(suspended) : PosesRejected(r)
    \/ ResetClick

Spec == Init /\ [][Next]_vars


\* ================================================================== claims
\* Every state of a behaviour lies between two handlers: no state is in the
\* middle of a handler, so what a claim says of "every state in which no run
\* is mid-draw" is said of every state.

\* a garment draw call among the draw calls of the last handler
GarmentDrawn == \E i \in DOMAIN drawn : drawn[i].op = "garment"

\* C1: at most one try-on run is outstanding (suspended on the pose-detection
\* call) at any time; a trigger during an outstanding run starts no second run.
C1_SingleRun == runs <= 1

\* C2: between handlers the compositing parameters of the display surface are
\* the defaults, alpha = 1.0 and blend mode normal (source-over), whatever the
\* outcome of the try-on runs that have ended.
C2_DefaultCompositing == ctx.alpha = 100 /\ ctx.blend = "source-over"

\* C3: the try-on control is enabled only if the detector exists (the model
\* initialised successfully) and imageUploaded holds.
C3_EnabledOnlyWhenReady == ~tryOnDisabled => (detector /\ isImageUploaded)

\* C4: once the model initialisation has failed it stays failed (no retry, no
\* detector), and no later step starts a pipeline run: no pose-detection call
\* is made, none is outstanding and no garment is drawn.
C4_ModelFailureTerminal ==
    [][ initPc = "failed" =>
          /\ initPc' = "failed"
          /\ ~detector'
          /\ runs' = 0
          /\ ~GarmentDrawn'
          /\ ~ended'.garment
          /\ ~canvas'.garment ]_vars

\* C4 witness: after a failed initialisation a photo has been ingested, the
\* try-on control was clicked and the click was turned down.
C4_Witness ==
    /\ initPc = "failed"
    /\ isImageUploaded
    /\ emitted = << Msg("WaitForModels", "error") >>

\* C5 (safety part): the processing indication is shown in every state in
\* which a try-on run is outstanding, and in the state right after a run has
\* reached its terminal outcome the indication is cleared, imageUploaded still
\* holds and a fresh try-on trigger would be accepted.
C5_ProcessingNeverStuck ==
    /\ runs > 0 => ~loadingHidden
    /\ ended.detection # "none" =>
          /\ loadingHidden
          /\ isImageUploaded
          /\ ~tryOnDisabled
          /\ ~NotReady
          /\ ~DressNotComplete

\* C6: in the state right after a reset imageUploaded is false, the display
\* surface is cleared and the try-on control is disabled; the control stays
\* disabled as long as no upload has been ingested since.  While the stored
\* image is the empty one that reset left, no upload has got as far as its
\* decode since the reset, so none has been ingested and the control is
\* disabled.
C6_ResetRequiresFreshUpload ==
    /\ emitted = << Msg("ReadyForNewPhoto", "info") >> =>
          /\ ~isImageUploaded
          /\ canvas.base = 0 /\ ~canvas.garment
          /\ tryOnDisabled
    /\ uploadedImage = EmptyImage => tryOnDisabled

Required == {"left_shoulder", "right_shoulder", "left_hip", "right_hip"}

Present(keypoints, n) == \E i \in DOMAIN keypoints : keypoints[i].name = n

\* all four required keypoints are present with a score above 0.3
AllFourAbove(keypoints) ==
    \A n \in Required :
        \E i \in DOMAIN keypoints :
            keypoints[i].name = n /\ keypoints[i].score > 30000

\* C7: a try-on run that has ended has drawn the garment if and only if its
\* detection call returned at least one pose whose first pose has all four
\* required keypoints with a score strictly above 0.3.
C7_GateDecidesDraw ==
    ended.outcome # "none" =>
        (ended.garment <=>
            /\ ended.detection = "resolved"
            /\ Len(ended.poses) >= 1
            /\ AllFourAbove(ended.poses[1].keypoints))

\* C8 as claimed: zero poses give NoPersonDetected, a first pose that lacks a
\* required keypoint gives NoPersonDetected too, and LowConfidenceDetection
\* is reported only when all four are present and one has a score <= 0.3.
C8_Classification ==
    ended.detection = "resolved" =>
        /\ Len(ended.poses) = 0 => ended.outcome = "NoPersonDetected"
        /\ ( /\ Len(ended.poses) > 0
             /\ \E n \in Required : ~Present(ended.poses[1].keypoints, n) )
           => ended.outcome = "NoPersonDetected"
        /\ ended.outcome = "LowConfidenceDetection" =>
              /\ Len(ended.poses) > 0
              /\ \A n \in Required : Present(ended.poses[1].keypoints, n)
              /\ ~AllFourAbove(ended.poses[1].keypoints)

\* C8 as amended: NoPersonDetected is reported exactly when the detection
\* returned zero poses; LowConfidenceDetection is reported exactly when the
\* first pose lacks a required keypoint or has one with a score <= 0.3.
C8_ClassificationAmended ==
    ended.detection = "resolved" =>
        /\ ended.outcome = "NoPersonDetected" <=> Len(ended.poses) = 0
        /\ ended.outcome = "LowConfidenceDetection" <=>
              /\ Len(ended.poses) > 0
              /\ ~AllFourAbove(ended.poses[1].keypoints)

\* C8 witness: a run ended with LowConfidenceDetection on a first pose that
\* does not report right_hip.
C8_Witness ==
    /\ ended.outcome = "LowConfidenceDetection"
    /\ ~Present(ended.poses[1].keypoints, "right_hip")

\* C9: a try-on trigger that passes the readiness guard while the garment
\* asset is not fully loaded (load pending or ended in an error) reports
\* GarmentAssetNotReady, draws nothing and makes no pose-detection call.
C9_GarmentNotReady ==
    [][ (TryOnClick /\ ~NotReady /\ dressImage # "complete") =>
          /\ emitted' = << Msg("DressStillLoading", "error") >>
          /\ drawn' = <<>>
          /\ canvas' = canvas
          /\ runs' = runs ]_vars

\* the top-level part of a media type is "image"
ImageKind(type) ==
    \E i \in 1..Len(type) :
        type[i] = "/" /\ SubSeq(type, 1, i - 1) = <<"i","m","a","g","e">>

\* the files of an image kind, and the files of more than 10 MiB
ImageFiles == {f \in FileIds : ImageKind(Files[f].type)}

OverLimit == {f \in FileIds : Files[f].size > 10 * 1024 * 1024}

\* C10: choosing a file that is not of an image kind reports InvalidFileType,
\* choosing an image file of more than 10 * 1024 * 1024 bytes reports
\* FileTooLarge; either leaves imageUploaded, the stored image and the
\* display surface as they were and starts no read; any other file, one of
\* exactly 10 MiB included, has its read started.
C10_IngestionRejects ==
    [][ \A f \in FileIds :
          UploadChange(f) =>
            /\ f \notin ImageFiles =>
                  emitted' = << Msg("InvalidFileType", "error") >>
            /\ f \in ImageFiles \cap OverLimit =>
                  emitted' = << Msg("FileTooLarge", "error") >>
            /\ (f \notin ImageFiles \/ f \in OverLimit) =>
                  /\ UNCHANGED << isImageUploaded, uploadedImage, canvas,
                                  ctx, readers, decoding >>
                  /\ drawn' = <<>>
            /\ f \in ImageFiles \ OverLimit =>
                  /\ readers' = readers (+) SetToBag({Reader(f)})
                  /\ emitted' = << Msg("ProcessingPhoto", "info") >> ]_vars

\* C10 witness: with a photo ingested and shown, a file over the limit was
\* chosen and turned down.
C10_Witness ==
    /\ emitted = << Msg("FileTooLarge", "error") >>
    /\ isImageUploaded
    /\ canvas.base # 0
    /\ readers = EmptyBag

\* the state right after the load handler of the stored, decoded image has
\* ingested it
Ingested ==
    /\ emitted = << Msg("PhotoUploaded", "success") >>
    /\ uploadedImage.state = "complete"

\* C11 as claimed: after ingesting a raw image of size w x h the display
\* surface is w x h if w <= 600 and h <= 800; otherwise its width is at most
\* 600, its height at most 800, both are the raw dimensions times
\* min(600/w, 800/h), and width / height = w / h.
C11_DisplayDimensions ==
    Ingested =>
        LET w  == uploadedImage.width
            h  == uploadedImage.height
            cw == canvas.width
            ch == canvas.height
        IN  IF w <= 600 /\ h <= 800
            THEN cw = w /\ ch = h
            ELSE /\ cw <= 600
                 /\ ch <= 800
                 /\ cw * h = ch * w

\* C11 as amended: an image within 600 x 800 keeps its size; otherwise, with
\* s = min(600/w, 800/h) = a/b, the display surface's width and height are
\* w * s and h * s less their fraction: at most 600 and 800, at most the
\* exact product and less than one pixel below it (one pixel below where the
\* rounded product falls short of a whole number).
C11_DisplayDimensionsAmended ==
    Ingested =>
        LET w  == uploadedImage.width
            h  == uploadedImage.height
            cw == canvas.width
            ch == canvas.height
            byWidth == 600 * h <= 800 * w
            a  == IF byWidth THEN 600 ELSE 800
            b  == IF byWidth THEN w ELSE h
        IN  IF w <= 600 /\ h <= 800
            THEN cw = w /\ ch = h
            ELSE /\ cw <= 600
                 /\ ch <= 800
                 /\ cw * b <= w * a /\ w * a <= (cw + 1) * b
                 /\ ch * b <= h * a /\ h * a <= (ch + 1) * b

\* C11 witness: a 1109 x 700 image was ingested and the display surface is
\* 599 x 378.
C11_Witness ==
    /\ Ingested
    /\ uploadedImage.width = 1109 /\ uploadedImage.height = 700
    /\ canvas.width = 599 /\ canvas.height = 378

\* a whole number, with its sign
Whole(n) == [negative |-> FALSE, magnitude |-> FromInteger(n)]

\* the reference formula of the fit rectangle
Reference(ls, rs, lh, scaleX, scaleY) ==
    LET X(k)   == Multiply(FromInteger(k.x), scaleX)
        Y(k)   == Multiply(FromInteger(k.y), scaleY)
        width  == Multiply(Divide(3, 2), Distance(X(rs), X(ls)))
        height == Multiply(Divide(9, 5), Distance(Y(lh), Y(ls)))
    IN  [x      |-> Minus(Multiply(Plus(X(ls), X(rs)), Divide(1, 2)),
                          Multiply(width, Divide(1, 2))),
         y      |-> Minus(Y(ls), Multiply(Divide(1, 10), height)),
         width  |-> width,
         height |-> height]

\* C12: the rectangle the garment is drawn into is the reference formula of
\* the first pose's keypoints and the scale factors (width = 1.5 * |rs.x -
\* ls.x|, height = 1.8 * |lh.y - ls.y|, x = (ls.x + rs.x)/2 - width/2,
\* y = ls.y - 0.1 * height, on the scaled keypoints); for (100,50), (200,50),
\* (110,250), (190,250) and scale (1,1) it is x 75, y 14, width 150,
\* height 360; shoulders at the same x give width 0 and no error.
C12_FitRectangle ==
    \A i \in DOMAIN drawn :
        drawn[i].op = "garment" =>
            LET keypoints == ended.poses[1].keypoints
                ls == Find(keypoints, "left_shoulder")
                rs == Find(keypoints, "right_shoulder")
                lh == Find(keypoints, "left_hip")
                rh == Find(keypoints, "right_hip")
                scaleX == Divide(canvas.width, uploadedImage.width)
                scaleY == Divide(canvas.height, uploadedImage.height)
            IN  /\ canvas.width > 0 /\ canvas.height > 0 =>
                    drawn[i].at = Reference(ls, rs, lh, scaleX, scaleY)
                /\ ( /\ << ls.x, ls.y, rs.x, rs.y >> = << 100, 50, 200, 50 >>
                     /\ << lh.x, lh.y, rh.x, rh.y >> = << 110, 250, 190, 250 >>
                     /\ canvas.width = uploadedImage.width
                     /\ canvas.height = uploadedImage.height )
                    => drawn[i].at = [x |-> Whole(75), y |-> Whole(14),
                                      width  |-> FromInteger(150),
                                      height |-> FromInteger(360)]
                /\ ls.x = rs.x =>
                       /\ drawn[i].at.width = Zero
                       /\ ended.outcome = "Rendered"
                       /\ emitted = << Msg("DressFitted", "success") >>

\* C12 witness: the garment was drawn for the keypoints of the example at
\* scale (1,1), into the rectangle of the example.
C12_Witness ==
    /\ Len(drawn) = 1
    /\ drawn[1].op = "garment"
    /\ drawn[1].at.width = FromInteger(150)
    /\ drawn[1].at.x = Whole(75)
    /\ canvas.width = uploadedImage.width
    /\ Find(ended.poses[1].keypoints, "left_hip").x = 110

\* the garment was drawn for shoulders at the same x, at a scale that is
\* not 1
C12_WitnessNarrow ==
    /\ Len(drawn) = 1
    /\ drawn[1].op = "garment"
    /\ drawn[1].at.width = Zero
    /\ canvas.width = 599 /\ uploadedImage.width = 1109

\* the run that ended in the last step reached the fit calculation
ReachedFit ==
    /\ ended.detection = "resolved"
    /\ Len(ended.poses) > 0
    /\ ConfidenceCheck(ended.poses[1].keypoints)

\* C13: in every try-on run that reaches the fit calculation scaleX and
\* scaleY are positive and finite: the width and height of the source image
\* they divide by are not 0 and the display surface's width and height are
\* positive.
C13_ScaleFactors ==
    ReachedFit =>
        /\ uploadedImage.width > 0 /\ uploadedImage.height > 0
        /\ canvas.width > 0 /\ canvas.height > 0

\* C14: a click on the try-on control while the model is not ready or no
\* image is uploaded makes no pose-detection call, draws nothing, leaves the
\* model's readiness, imageUploaded and the stored image as they are, and
\* emits exactly one status message, of error severity.
C14_BlockedTrigger ==
    [][ ( /\ TryOnClick
          /\ \/ ~detector
             \/ isModelLoading
             \/ ~isImageUploaded
             \/ uploadedImage.src = 0 )
        => /\ runs' = runs
           /\ drawn' = <<>>
           /\ canvas' = canvas
           /\ ctx' = ctx
           /\ detector' = detector
           /\ isModelLoading' = isModelLoading
           /\ isImageUploaded' = isImageUploaded
           /\ uploadedImage' = uploadedImage
           /\ Len(emitted') = 1
           /\ emitted'[1].type = "error" ]_vars

\* C14 witness: the try-on control was clicked with a decoded photo stored
\* and no detector, and the click was turned down.
C14_Witness ==
    /\ ~detector
    /\ ~tryOnDisabled
    /\ uploadedImage.state = "complete"
    /\ emitted = << Msg("WaitForModels", "error") >>
    /\ drawn = <<>>
    /\ runs = 0

\* C15: every step that starts a try-on run redraws the base image, every
\* redraw of the base image is at alpha 1.0 with blend source-over, and every
\* draw of the garment is at alpha 0.8 with blend multiply; also in a retry
\* after a run that failed while compositing.
C15_CompositingOrder ==
    [][ /\ runs' = runs + 1 =>
              /\ Len(drawn') = 1
              /\ drawn'[1].op = "base"
              /\ drawn'[1].image = uploadedImage.src
        /\ \A i \in DOMAIN drawn' :
              /\ drawn'[i].op = "base" =>
                    /\ drawn'[i].alpha = DefaultAlpha
                    /\ drawn'[i].blend = "source-over"
              /\ drawn'[i].op = "garment" =>
                    /\ drawn'[i].alpha = GarmentAlpha
                    /\ drawn'[i].blend = "multiply" ]_vars

\* C16: once the model has been initialised successfully and an upload has
\* been ingested, in either order, the session is in the same state: model
\* ready, imageUploaded true, try-on enabled; and while the model is still
\* loading an ingested upload does not enable try-on.
C16_ReadinessOrderIndependent ==
    /\ (initPc = "done" /\ isImageUploaded) =>
          (detector /\ ~isModelLoading /\ ~tryOnDisabled)
    /\ (initPc \in {"tfReady", "createDetector"} /\ isImageUploaded) =>
          (~detector /\ isModelLoading /\ tryOnDisabled)

\* C16 witness: the upload was ingested first and the model's initialisation
\* has just succeeded; try-on is enabled.
C16_Witness ==
    /\ emitted = << Msg("ModelsLoaded", "success") >>
    /\ isImageUploaded
    /\ uploadedImage.state = "complete"
    /\ detector
    /\ ~tryOnDisabled

\* the model was initialised first and the upload has just been ingested;
\* try-on is enabled
C16_WitnessModelFirst ==
    /\ Ingested
    /\ initPc = "done"
    /\ detector
    /\ ~tryOnDisabled

\* the upload was ingested while the model was loading; try-on is disabled
C16_WitnessStillLoading ==
    /\ Ingested
    /\ initPc = "createDetector"
    /\ tryOnDisabled

\* C17: while imageUploaded is false (from a reset until the next upload is
\* ingested) the display surface stays cleared, no step draws the garment
\* and no step reports a successful fit, whatever run resumes.
C17_ResetNotUndone ==
    ~isImageUploaded =>
        /\ canvas.base = 0
        /\ ~canvas.garment
        /\ ~GarmentDrawn
        /\ \A i \in DOMAIN emitted : emitted[i] # Msg("DressFitted", "success")

\* the size of the display surface that fits file f
FittedSize(f) ==
    LET fit == Fit(Files[f].width, Files[f].height)
    IN  << ToLength(fit.width), ToLength(fit.height) >>

\* C18: when a try-on run resumes and reaches the fit calculation, the photo
\* it handed to the pose detection (whose keypoints it holds) is the stored
\* image whose width and height the scale factors divide by, the display
\* surface has the size fitted to that photo, and the base image on the
\* surface is that photo; also when another upload completed meanwhile.
C18_OnePhotoPerRun ==
    [][ \A r \in BagToSet(suspended) :
          (suspended' = suspended (-) SetToBag({r}) /\ ReachedFit') =>
              /\ r.photo # 0
              /\ uploadedImage.state = "complete"
              /\ uploadedImage.src = r.photo
              /\ canvas.base = r.photo
              /\ << canvas.width, canvas.height >> = FittedSize(r.photo) ]_vars

\* C19: whenever imageUploaded is true the stored image is fully decoded and
\* the display surface has the size fitted to it; also while a later upload
\* is read or decoded, after a later upload failed to decode and when two
\* uploads overlap.
C19_StoredImageDecoded ==
    isImageUploaded =>
        /\ uploadedImage.state = "complete"
        /\ << canvas.width, canvas.height >> = FittedSize(uploadedImage.src)

====
